---- MODULE Spec2Model ----
(***************************************************************************)
(* NAV ledger of stersitha/fund-system (src/app.py).                       *)
(*                                                                         *)
(* The engine is recalc_from_inputs: it takes the frame of daily input     *)
(* records and the seed (init_date, init_aum, init_units) and returns the  *)
(* ledger, one computed row per date.  Its callers are the "add_day" form, *)
(* the data editor and the "Recalculate & Save NAV" button.                *)
(*                                                                         *)
(* Numbers.  The program computes in Python floats.  The model computes in *)
(* exact rationals <<n, d>> (d > 0, lowest terms), so "a == b" in the      *)
(* model is equality of real numbers.  The recurrence divides by its own   *)
(* results, so numerators and denominators square from one day to the      *)
(* next: with TLC's 32-bit integers a replay of the seed day and two       *)
(* further days is what can be carried exactly, and only with a rate whose *)
(* denominator is small.  MER_DAILY_RATE is therefore 1/2 in the model     *)
(* where the program has 0.06/365; no formula below depends on the value   *)
(* of the rate other than through the code's own expressions.              *)
(***************************************************************************)
EXTENDS Integers, Sequences, FiniteSets, TLC

\* ------------------------------------------------------------ bounds ----
\* Largest number of records the input frame holds at one time.
MaxRows == 2

\* ------------------------------------------------- rational numbers ----
Abs(n) == IF n < 0 THEN -n ELSE n

RECURSIVE Gcd(_, _)
Gcd(a, b) == IF b = 0 THEN a ELSE Gcd(b, a % b)

\* <<n, d>> in lowest terms with a positive denominator (d # 0).
Norm(n, d) ==
    LET g == Gcd(Abs(n), Abs(d))
        s == IF d < 0 THEN -1 ELSE 1
    IN  <<(s * n) \div g, (s * d) \div g>>

Rat(n) == <<n, 1>>
Zero == <<0, 1>>

\* float +, -, * and / of the source, on exact rationals.
Add(a, b) ==
    LET g == Gcd(a[2], b[2])
    IN  Norm(a[1] * (b[2] \div g) + b[1] * (a[2] \div g), (a[2] \div g) * b[2])
Neg(a) == <<-a[1], a[2]>>
Sub(a, b) == Add(a, Neg(b))
Mul(a, b) ==
    LET g1 == Gcd(Abs(a[1]), b[2])
        g2 == Gcd(Abs(b[1]), a[2])
    IN  Norm((a[1] \div g1) * (b[1] \div g2), (a[2] \div g2) * (b[2] \div g1))
\* a / b; every division of the source is guarded by b != 0.
Div(a, b) == Mul(a, Norm(b[2], b[1]))

IsZero(a) == a[1] = 0
Pos(a) == a[1] > 0
LeqZero(a) == a[1] <= 0

\* ------------------------------------------------------- constants ----
\* MER_DAILY_RATE = 0.06 / 365 in the source; 1/2 here (see the header).
MER_DAILY_RATE == <<1, 2>>

\* ------------------------------------------------------ cell values ----
\* A missing cell (pd.NA / NaN / None); a number is a pair <<n, d>>.
NA == <<>>
\* pd.NaT: what pd.to_datetime(errors="coerce") gives for a missing or an
\* unparseable date cell.  Calendar dates are the day numbers in Dates.
NaT == 0
\* Three days: the seed day and two more is the longest replay the exact
\* arithmetic carries (see the header).
Dates == {1, 2, 3}
\* A date cell holding text that is not a date.
BadDate == -1

\* ---------------------------------------------------------- helpers ----
safe_float(x) == IF x = NA THEN Zero ELSE x

to_datetime(x) == IF x \in Dates THEN x ELSE NaT

normalize_dates(df) ==
    [i \in 1..Len(df) |-> [df[i] EXCEPT !.Date = to_datetime(df[i].Date)]]

HasDate(r) == r.Date # NaT
dropna(df) == SelectSeq(df, HasDate)

\* sort_values("Date"): ascending, NaT last, rows of equal date keep their
\* order (numpy sorts frames of this size by insertion).
DateKey(d) == IF d = NaT THEN 1000 ELSE d

RECURSIVE InsertByDate(_, _)
InsertByDate(sorted, r) ==
    IF sorted = <<>> THEN <<r>>
    ELSE IF DateKey(sorted[Len(sorted)].Date) <= DateKey(r.Date)
         THEN Append(sorted, r)
         ELSE Append(InsertByDate(SubSeq(sorted, 1, Len(sorted) - 1), r),
                     sorted[Len(sorted)])

RECURSIVE SortFrom(_, _, _)
SortFrom(df, i, acc) ==
    IF i > Len(df) THEN acc
    ELSE SortFrom(df, i + 1, InsertByDate(acc, df[i]))

sort_values(df) == SortFrom(df, 1, <<>>)

\* groupby("Date", as_index=False).last(): one row per date, ascending;
\* each column holds the last non-missing cell of the date's rows.
RECURSIVE Ascending(_)
Ascending(S) ==
    IF S = {} THEN <<>>
    ELSE LET m == CHOOSE x \in S : \A y \in S : x <= y
         IN  <<m>> \o Ascending(S \ {m})

LastValid(df, d, c) ==
    LET idx == {i \in 1..Len(df) : df[i].Date = d /\ df[i][c] # NA}
    IN  IF idx = {} THEN NA
        ELSE df[CHOOSE i \in idx : \A j \in idx : j <= i][c]

groupby_last(df) ==
    LET keys == Ascending({df[i].Date : i \in 1..Len(df)})
    IN  [k \in 1..Len(keys) |->
            [Date |-> keys[k],
             Deposits |-> LastValid(df, keys[k], "Deposits"),
             Withdrawals |-> LastValid(df, keys[k], "Withdrawals"),
             UnrealizedPerformance |-> LastValid(df, keys[k], "UnrealizedPerformance"),
             RealizedPerformance |-> LastValid(df, keys[k], "RealizedPerformance"),
             TradingCosts |-> LastValid(df, keys[k], "TradingCosts")]]

\* The preparation without the deduplication of line 101.
PrepareInputsNoDedup(inputs_df) ==
    sort_values(dropna(normalize_dates(inputs_df)))

\* Lines 95-101: copy, normalize_dates, dropna, sort_values, groupby.last.
PrepareInputs(inputs_df) ==
    groupby_last(sort_values(dropna(normalize_dates(inputs_df))))

\* ------------------------------------------------- the seed-day row ----
\* Variants of the seed-day row used to test the formulas of C9 and C10:
\* the row under fee rate `rate`, with performance (un, re, tc) entering
\* its gross AUM.
SeedDayVariant(df, init_date, init_aum, init_units, rate, un, re, tc) ==
    LET init_ppu == IF ~IsZero(init_units) THEN Div(init_aum, init_units) ELSE Zero
        gross == Sub(Add(Add(init_aum, un), re), tc)
        close == IF ~IsZero(init_units) THEN Div(gross, init_units) ELSE Zero
        fee == Mul(Mul(close, init_aum), rate)
        price == Sub(close, IF ~IsZero(init_units) THEN Div(fee, init_units) ELSE Zero)
        at == {i \in 1..Len(df) : df[i].Date = init_date}
    IN  [Date |-> init_date,
         Deposits |-> IF at # {} THEN safe_float(df[CHOOSE i \in at : TRUE].Deposits)
                      ELSE Zero,
         Withdrawals |-> Zero, InitialAUM |-> init_aum,
         UnitsToMint |-> Zero, UnitsToBurn |-> Zero, NetUnits |-> Zero,
         Units |-> init_units, PostMovAum |-> init_aum,
         UnrealizedPerformance |-> un, UnrealizedPct |-> Zero,
         RealizedPerformance |-> re, RealizedPct |-> Zero,
         InitialPPU |-> init_ppu, ClosePPU |-> close, ServicingFee |-> fee,
         TradingCosts |-> tc, PriceWithMER |-> price,
         PPUChange |-> Sub(price, init_ppu),
         FinalAUM |-> Mul(price, init_units)]

\* The seed day without its fee.
Day1RowNoFee(df, init_date, init_aum, init_units) ==
    SeedDayVariant(df, init_date, init_aum, init_units, Zero, Zero, Zero, Zero)

\* The seed day taking the performance and costs of the seed-date record.
Day1RowWithPerformance(df, init_date, init_aum, init_units) ==
    LET at == {i \in 1..Len(df) : df[i].Date = init_date}
        cell(c) == IF at = {} THEN Zero ELSE safe_float(df[CHOOSE i \in at : TRUE][c])
    IN  SeedDayVariant(df, init_date, init_aum, init_units, MER_DAILY_RATE,
                       cell("UnrealizedPerformance"), cell("RealizedPerformance"),
                       cell("TradingCosts"))

Day1Row(df, init_date, init_aum, init_units) ==
    LET init_ppu == IF ~IsZero(init_units) THEN Div(init_aum, init_units) ELSE Zero
        day1_close_ppu == init_ppu
        day1_fee == Mul(Mul(day1_close_ppu, init_aum), MER_DAILY_RATE)
        day1_price_with_mer ==
            Sub(day1_close_ppu,
                IF ~IsZero(init_units) THEN Div(day1_fee, init_units) ELSE Zero)
        day1_final_aum == Mul(day1_price_with_mer, init_units)
        at == {i \in 1..Len(df) : df[i].Date = init_date}
    IN  [Date |-> init_date,
         Deposits |-> IF at # {} THEN safe_float(df[CHOOSE i \in at : TRUE].Deposits)
                      ELSE Zero,
         Withdrawals |-> Zero,
         InitialAUM |-> init_aum,
         UnitsToMint |-> Zero,
         UnitsToBurn |-> Zero,
         NetUnits |-> Zero,
         Units |-> init_units,
         PostMovAum |-> init_aum,
         UnrealizedPerformance |-> Zero,
         UnrealizedPct |-> Zero,
         RealizedPerformance |-> Zero,
         RealizedPct |-> Zero,
         InitialPPU |-> init_ppu,
         ClosePPU |-> day1_close_ppu,
         ServicingFee |-> day1_fee,
         TradingCosts |-> Zero,
         PriceWithMER |-> day1_price_with_mer,
         PPUChange |-> Sub(day1_price_with_mer, init_ppu),
         FinalAUM |-> day1_final_aum]

\* ------------------------------------------------ a subsequent day ----
\* Variants of the loop body used to test the formulas of C11, C14 and
\* C15: with flows_in_aum the net flow enters gross AUM; with pct_on_open
\* the percentages are taken on (and guarded by) the opening AUM; with
\* mint_at_par a deposit on a day without a price mints at price 1.
DayRowVariant(r, prev_final_aum, prev_units, prev_price_with_mer,
              flows_in_aum, pct_on_open, mint_at_par) ==
    LET deposits == safe_float(r.Deposits)
        withdrawals == safe_float(r.Withdrawals)
        unreal == safe_float(r.UnrealizedPerformance)
        realized == safe_float(r.RealizedPerformance)
        trading_costs == safe_float(r.TradingCosts)
        net_flow == Sub(deposits, withdrawals)
        units_to_mint == IF Pos(deposits) /\ ~IsZero(prev_price_with_mer)
                         THEN Div(deposits, prev_price_with_mer)
                         ELSE IF Pos(deposits) /\ mint_at_par THEN deposits
                         ELSE Zero
        units_to_burn == IF Pos(withdrawals) /\ ~IsZero(prev_price_with_mer)
                         THEN Div(withdrawals, prev_price_with_mer) ELSE Zero
        net_units == Sub(units_to_mint, units_to_burn)
        units_sum == Add(prev_units, net_units)
        units_end == IF LeqZero(units_sum) THEN Zero ELSE units_sum
        post_mov_aum == Add(prev_final_aum, net_flow)
        performance == Sub(Add(Add(prev_final_aum, unreal), realized), trading_costs)
        gross_aum == IF flows_in_aum THEN Add(performance, net_flow) ELSE performance
        close_ppu == IF ~IsZero(units_end) THEN Div(gross_aum, units_end) ELSE Zero
        servicing_fee == Mul(Mul(close_ppu, post_mov_aum), MER_DAILY_RATE)
        fee_per_unit == IF ~IsZero(units_end) THEN Div(servicing_fee, units_end) ELSE Zero
        price_with_mer == Sub(close_ppu, fee_per_unit)
        pct_base == IF pct_on_open THEN prev_final_aum ELSE post_mov_aum
        pct(x) == IF ~IsZero(pct_base) THEN Mul(Div(x, pct_base), Rat(100)) ELSE Zero
    IN  [Date |-> r.Date, Deposits |-> deposits, Withdrawals |-> withdrawals,
         InitialAUM |-> prev_final_aum, UnitsToMint |-> units_to_mint,
         UnitsToBurn |-> units_to_burn, NetUnits |-> net_units,
         Units |-> units_end, PostMovAum |-> post_mov_aum,
         UnrealizedPerformance |-> unreal, UnrealizedPct |-> pct(unreal),
         RealizedPerformance |-> realized, RealizedPct |-> pct(realized),
         InitialPPU |-> prev_price_with_mer, ClosePPU |-> close_ppu,
         ServicingFee |-> servicing_fee, TradingCosts |-> trading_costs,
         PriceWithMER |-> price_with_mer,
         PPUChange |-> Sub(price_with_mer, prev_price_with_mer),
         FinalAUM |-> Mul(price_with_mer, units_end)]

\* The day with deposits and withdrawals entering gross AUM.
DayRowFlowsInAum(r, prev_final_aum, prev_units, prev_price_with_mer) ==
    DayRowVariant(r, prev_final_aum, prev_units, prev_price_with_mer,
                  TRUE, FALSE, FALSE)

\* The day with its percentages taken on the opening AUM.
DayRowPctOnOpeningAum(r, prev_final_aum, prev_units, prev_price_with_mer) ==
    DayRowVariant(r, prev_final_aum, prev_units, prev_price_with_mer,
                  FALSE, TRUE, FALSE)

\* The day with a deposit minting at price 1 when the fund has no price.
DayRowMintsAtPar(r, prev_final_aum, prev_units, prev_price_with_mer) ==
    DayRowVariant(r, prev_final_aum, prev_units, prev_price_with_mer,
                  FALSE, FALSE, TRUE)

\* One pass of the loop body (lines 147-207): the row of input record r
\* given the closing state of the row computed before it.
DayRow(r, prev_final_aum, prev_units, prev_price_with_mer) ==
    LET deposits == safe_float(r.Deposits)
        withdrawals == safe_float(r.Withdrawals)
        unreal == safe_float(r.UnrealizedPerformance)
        realized == safe_float(r.RealizedPerformance)
        trading_costs == safe_float(r.TradingCosts)
        initial_aum == prev_final_aum
        initial_ppu == prev_price_with_mer
        initial_units == prev_units
        net_flow == Sub(deposits, withdrawals)
        units_to_mint == IF Pos(deposits) /\ ~IsZero(initial_ppu)
                         THEN Div(deposits, initial_ppu) ELSE Zero
        units_to_burn == IF Pos(withdrawals) /\ ~IsZero(initial_ppu)
                         THEN Div(withdrawals, initial_ppu) ELSE Zero
        net_units == Sub(units_to_mint, units_to_burn)
        units_sum == Add(initial_units, net_units)
        units_end == IF LeqZero(units_sum) THEN Zero ELSE units_sum
        post_mov_aum == Add(initial_aum, net_flow)
        gross_aum == Sub(Add(Add(initial_aum, unreal), realized), trading_costs)
        close_ppu == IF ~IsZero(units_end) THEN Div(gross_aum, units_end) ELSE Zero
        servicing_fee == Mul(Mul(close_ppu, post_mov_aum), MER_DAILY_RATE)
        fee_per_unit == IF ~IsZero(units_end) THEN Div(servicing_fee, units_end) ELSE Zero
        price_with_mer == Sub(close_ppu, fee_per_unit)
        final_aum == Mul(price_with_mer, units_end)
        unreal_pct == IF ~IsZero(post_mov_aum)
                      THEN Mul(Div(unreal, post_mov_aum), Rat(100)) ELSE Zero
        realized_pct == IF ~IsZero(post_mov_aum)
                        THEN Mul(Div(realized, post_mov_aum), Rat(100)) ELSE Zero
    IN  [Date |-> r.Date,
         Deposits |-> deposits,
         Withdrawals |-> withdrawals,
         InitialAUM |-> initial_aum,
         UnitsToMint |-> units_to_mint,
         UnitsToBurn |-> units_to_burn,
         NetUnits |-> net_units,
         Units |-> units_end,
         PostMovAum |-> post_mov_aum,
         UnrealizedPerformance |-> unreal,
         UnrealizedPct |-> unreal_pct,
         RealizedPerformance |-> realized,
         RealizedPct |-> realized_pct,
         InitialPPU |-> initial_ppu,
         ClosePPU |-> close_ppu,
         ServicingFee |-> servicing_fee,
         TradingCosts |-> trading_costs,
         PriceWithMER |-> price_with_mer,
         PPUChange |-> Sub(price_with_mer, initial_ppu),
         FinalAUM |-> final_aum]

\* The loop of lines 146-212: rows are appended in iteration order, each
\* from the closing state (Final AUM, Units, Price with MER) of the last.
RECURSIVE Replay(_, _, _)
Replay(df, i, rows) ==
    IF i > Len(df) THEN rows
    ELSE LET prev == rows[Len(rows)]
         IN  Replay(df, i + 1,
                    Append(rows, DayRow(df[i], prev.FinalAUM, prev.Units,
                                        prev.PriceWithMER)))

NotInitDate(df, init_date) ==
    LET keep(r) == r.Date # init_date IN sort_values(SelectSeq(df, keep))

\* The replay without any of the sorts: records taken as presented.
ComputedRowsAsPresented(inputs_df, init_date, init_aum, init_units) ==
    LET df == dropna(normalize_dates(inputs_df))
        keep(r) == r.Date # init_date
    IN  Replay(SelectSeq(df, keep), 1,
               <<Day1Row(df, init_date, init_aum, init_units)>>)

\* The rows in the order the function computes them (before line 216).
ComputedRows(inputs_df, init_date, init_aum, init_units) ==
    LET df == PrepareInputs(inputs_df)
    IN  Replay(NotInitDate(df, init_date), 1,
               <<Day1Row(df, init_date, init_aum, init_units)>>)

recalc_from_inputs(inputs_df, init_date, init_aum, init_units) ==
    sort_values(ComputedRows(inputs_df, init_date, init_aum, init_units))

\* ---------------------------------------------------- input domains ----
\* Seeds handed to recalc_from_inputs, as (init_date, init_aum, init_units):
\* a fund of 2 units at price 1, seeded on the first or on the second day;
\* a seed without assets; a seed without units; a negative unit count.  The
\* function takes any numbers: it guards init_units = 0 itself and has no
\* check of its own on the sign.
Seeds == {<<1, Rat(2), Rat(2)>>, <<2, Rat(2), Rat(2)>>, <<1, Rat(0), Rat(2)>>,
          <<1, Rat(2), Rat(0)>>, <<1, Rat(2), Rat(-1)>>}

\* Cells of one input record: (Deposits, Withdrawals, Unrealized, Realized,
\* Trading Costs).
Cells(dep, wd, un, re, tc) ==
    [Deposits |-> dep, Withdrawals |-> wd, UnrealizedPerformance |-> un,
     RealizedPerformance |-> re, TradingCosts |-> tc]

\* Entered through the form: a deposit; a withdrawal on a day with a gain.
FormCells ==
    {Cells(Rat(1), Rat(0), Rat(0), Rat(0), Rat(0)),
     Cells(Rat(0), Rat(1), Rat(1), Rat(0), Rat(0))}
\* Typed into the editor: a day without flows, with a loss and costs, its
\* Deposits cell left empty.
EditorCells == {Cells(NA, Rat(0), Rat(0), Rat(-1), Rat(1))}

WithDate(c, d) ==
    [Date |-> d, Deposits |-> c.Deposits, Withdrawals |-> c.Withdrawals,
     UnrealizedPerformance |-> c.UnrealizedPerformance,
     RealizedPerformance |-> c.RealizedPerformance,
     TradingCosts |-> c.TradingCosts]

\* The date cell of an editor row holds a date, is empty, or is not a date.
EditorRows == {WithDate(c, d) : c \in EditorCells, d \in Dates \cup {NaT, BadDate}}

\* ------------------------------------------------------------ state ----
VARIABLES
    init_date, init_aum, init_units,  \* the seed (lines 257-261)
    inputs_df,                        \* the frame of input records
    full_history                      \* the ledger last saved (line 358)

vars == <<init_date, init_aum, init_units, inputs_df, full_history>>

Init ==
    /\ \E s \in Seeds : init_date = s[1] /\ init_aum = s[2] /\ init_units = s[3]
    /\ inputs_df = <<>>
    /\ full_history = <<>>

\* Lines 267-280: the frame a run starts from is the input columns of the
\* saved history, sorted by date.
LoadInputs(history) ==
    sort_values(normalize_dates(
        [i \in 1..Len(history) |-> WithDate(history[i], history[i].Date)]))

\* The "add_day" form (lines 306-323): drop the rows of the same date when
\* overwrite is ticked, append the new record, normalize and sort.
AddDay(nav_date, c, overwrite) ==
    LET other(r) == r.Date # nav_date
        kept == IF overwrite /\ inputs_df # <<>>
                THEN SelectSeq(inputs_df, other) ELSE inputs_df
    IN  /\ Len(kept) < MaxRows
        /\ inputs_df' = sort_values(normalize_dates(Append(kept, WithDate(c, nav_date))))
        /\ UNCHANGED <<init_date, init_aum, init_units, full_history>>

\* The data editor (lines 336-340, num_rows="dynamic"): a row typed in at
\* the bottom of the table.
EditorAddRow(r) ==
    /\ Len(inputs_df) < MaxRows
    /\ inputs_df' = Append(inputs_df, r)
    /\ UNCHANGED <<init_date, init_aum, init_units, full_history>>

\* "Recalculate & Save NAV" (lines 346-358); the page then shows the saved
\* file, and its input columns are the frame of the next run.
Recalculate ==
    LET edited_inputs == dropna(normalize_dates(inputs_df))
        history == recalc_from_inputs(edited_inputs, init_date, init_aum, init_units)
    IN  /\ full_history' = history
        /\ inputs_df' = LoadInputs(history)
        /\ UNCHANGED <<init_date, init_aum, init_units>>

\* "Reset history for this fund" (lines 361-366): the file is emptied.
ResetHistory ==
    /\ full_history' = <<>>
    /\ inputs_df' = <<>>
    /\ UNCHANGED <<init_date, init_aum, init_units>>

Next ==
    \/ \E d \in Dates, c \in FormCells, o \in BOOLEAN : AddDay(d, c, o)
    \/ \E r \in EditorRows : EditorAddRow(r)
    \/ Recalculate
    \/ ResetHistory

Spec == Init /\ [][Next]_vars

\* =========================================================== claims ====
\* The ledger a rebuild of the present frame returns.
Rebuilt == recalc_from_inputs(inputs_df, init_date, init_aum, init_units)

\* The rows of a returned ledger in the order the replay computed them:
\* the seed row, then the other dates ascending.
IsSeedRow(r) == r.Date = init_date
IsDayRow(r) == r.Date # init_date
Computed(ledger) == SelectSeq(ledger, IsSeedRow) \o SelectSeq(ledger, IsDayRow)

\* units_end of line 164, before the clamp of lines 166-168, of the i-th
\* computed row.
UnitsBeforeClamp(rows, i) == Add(rows[i - 1].Units, rows[i].NetUnits)

\* C1 (as stated): in the returned ledger, in ascending date order, every
\* row after the first opens at the previous row's closing price and AUM.
PriceContinuity ==
    \A i \in 2..Len(full_history) :
        /\ full_history[i].InitialPPU = full_history[i - 1].PriceWithMER
        /\ full_history[i].InitialAUM = full_history[i - 1].FinalAUM

\* C2 (as stated): a day whose flows give units_end <= 0 ends in
\* NonPositiveUnits, so no row of the ledger is the row of such a day
\* (stated for days that open with positive units and a positive price).
NonPositiveUnitsRaises ==
    LET rows == Computed(full_history)
    IN  \A i \in 2..Len(rows) :
            Pos(rows[i - 1].Units) /\ Pos(rows[i - 1].PriceWithMER)
            => Pos(UnitsBeforeClamp(rows, i))

\* C3 (as stated): replay stops at the first failing day, so the ledger has
\* no row for a failing day nor for any day computed after one (stated for
\* seeds with a positive unit count, which pass the seed validation).
DayFails(rows, j) ==
    \/ LeqZero(rows[j - 1].Units)
    \/ LeqZero(rows[j - 1].PriceWithMER)
    \/ LeqZero(UnitsBeforeClamp(rows, j))

FailFast ==
    LET rows == Computed(full_history)
    IN  Pos(init_units)
        => \A i \in 2..Len(rows) : \A j \in 2..i : ~DayFails(rows, j)

\* C7 (as stated): with seed_units <= 0 the rebuild fails with InvalidSeed
\* and no ledger row exists.
InvalidSeedBlocksLedger == LeqZero(init_units) => full_history = <<>>

DistinctDates(df) ==
    \A i, j \in 1..Len(df) :
        i # j /\ to_datetime(df[i].Date) # NaT
        => to_datetime(df[i].Date) # to_datetime(df[j].Date)

Permute(df, p) == [i \in 1..Len(df) |-> df[p[i]]]

InsertionOrderIndependent ==
    DistinctDates(inputs_df)
    => \A ledger \in {Rebuilt} :
           \A p \in Permutations(1..Len(inputs_df)) :
               recalc_from_inputs(Permute(inputs_df, p), init_date, init_aum, init_units)
                   = ledger

\* A frame presented against date order, both of its days after the seed
\* row in the ledger.
OutOfOrderFrame ==
    /\ DistinctDates(inputs_df)
    /\ \E i, j \in 1..Len(inputs_df) :
           /\ i < j
           /\ to_datetime(inputs_df[j].Date) # NaT
           /\ inputs_df[i].Date > inputs_df[j].Date
    /\ Len(Rebuilt) = 3
    /\ Pos(Rebuilt[1].Units)

\* C5 (as stated, for the record of any date but the seed date): after the
\* record at date d is edited, the rebuild gives the same rows as before
\* for dates < d, a row at d that carries the edited fields, and every
\* later row threaded from the row before it.
AllCells == FormCells \cup EditorCells

CarriesCells(row, c) ==
    /\ row.Deposits = safe_float(c.Deposits)
    /\ row.Withdrawals = safe_float(c.Withdrawals)
    /\ row.UnrealizedPerformance = safe_float(c.UnrealizedPerformance)
    /\ row.RealizedPerformance = safe_float(c.RealizedPerformance)
    /\ row.TradingCosts = safe_float(c.TradingCosts)

Threaded(ledger, i) ==
    /\ i > 1
    /\ ledger[i].InitialPPU = ledger[i - 1].PriceWithMER
    /\ ledger[i].InitialAUM = ledger[i - 1].FinalAUM

OnlyRecordOfItsDate(df, k) ==
    /\ to_datetime(df[k].Date) # NaT
    /\ \A j \in 1..Len(df) : j # k => to_datetime(df[j].Date) # to_datetime(df[k].Date)

ReplayConsistency ==
    \A k \in 1..Len(inputs_df) : \A c \in AllCells :
        LET d == to_datetime(inputs_df[k].Date)
            edited == [inputs_df EXCEPT ![k] = WithDate(c, inputs_df[k].Date)]
            after == recalc_from_inputs(edited, init_date, init_aum, init_units)
            Earlier(r) == r.Date < d
        IN  OnlyRecordOfItsDate(inputs_df, k) /\ d # init_date
            => /\ SelectSeq(after, Earlier) = SelectSeq(Rebuilt, Earlier)
               /\ \A i \in 1..Len(after) :
                      /\ after[i].Date = d => CarriesCells(after[i], c)
                      /\ after[i].Date > d => Threaded(after, i)

\* C6 (as stated): with several records of one date in the frame, the
\* ledger is the ledger of the frame that holds only the last record of
\* each date, and has one row per date.
RECURSIVE LastWrites(_, _)
LastWrites(df, i) ==
    IF i > Len(df) THEN <<>>
    ELSE (IF /\ to_datetime(df[i].Date) # NaT
             /\ \E j \in (i + 1)..Len(df) :
                    to_datetime(df[j].Date) = to_datetime(df[i].Date)
          THEN <<>> ELSE <<df[i]>>) \o LastWrites(df, i + 1)

KeepLastWrite ==
    /\ Rebuilt = recalc_from_inputs(LastWrites(inputs_df, 1), init_date, init_aum, init_units)
    /\ \A i, j \in 1..Len(Rebuilt) : i # j => Rebuilt[i].Date # Rebuilt[j].Date

SeedDateRecord(c) ==
    LET df == PrepareInputs(inputs_df)
        at == {i \in 1..Len(df) : df[i].Date = init_date}
    IN  IF at = {} THEN Zero ELSE safe_float(df[CHOOSE i \in at : TRUE][c])

FlowsNeverEnterAum ==
    \A rows \in {Computed(full_history)} :
        \A i \in 2..Len(rows) :
            LET r == rows[i]
                performance ==
                    Sub(Add(Add(r.InitialAUM, r.UnrealizedPerformance),
                            r.RealizedPerformance), r.TradingCosts)
            IN  Pos(r.Units)
                => /\ r.FinalAUM = Mul(r.PriceWithMER, r.Units)
                   /\ r.FinalAUM = Sub(performance, r.ServicingFee)
                   /\ r.PostMovAum = Sub(Add(r.InitialAUM, r.Deposits), r.Withdrawals)
                   /\ r.ServicingFee =
                          Mul(Mul(r.ClosePPU, r.PostMovAum), MER_DAILY_RATE)

\* A saved ledger with a day that has a flow, ends with units and pays a fee.
FlowDayPriced ==
    \E i \in 1..Len(full_history) :
        LET r == full_history[i]
        IN  /\ IsDayRow(r)
            /\ Pos(r.Units)
            /\ ~IsZero(Sub(r.Deposits, r.Withdrawals))
            /\ ~IsZero(r.ServicingFee)

\* C12 (as stated): on every day after the seed day units are minted and
\* burned at the previous row's closing price after the fee, and the day
\* ends with the opening units plus the minted less the burned units
\* (stated for days that open with positive units and a positive price).
MintBurnAtOpeningPrice ==
    \A rows \in {Computed(full_history)} :
        \A i \in 2..Len(rows) :
            LET r == rows[i]
                prev == rows[i - 1]
                mint == IF Pos(r.Deposits)
                        THEN Div(r.Deposits, prev.PriceWithMER) ELSE Zero
                burn == IF Pos(r.Withdrawals)
                        THEN Div(r.Withdrawals, prev.PriceWithMER) ELSE Zero
            IN  Pos(prev.Units) /\ Pos(prev.PriceWithMER)
                => /\ r.InitialPPU = prev.PriceWithMER
                   /\ r.UnitsToMint = mint
                   /\ r.UnitsToBurn = burn
                   /\ r.Units = Sub(Add(prev.Units, mint), burn)

\* C13 (as stated): when the input record of a day carries a
\* servicing_fee_override, the servicing fee of that day's row is the
\* override, and the price after the fee and Final AUM derive from it
\* (stated for a fund seeded with assets and units).
\* The record is handed to the rebuild with the override as one more column
\* of the frame; the loop reads the five input columns by name (lines
\* 149-153) and no other.
FeeOverrides == {Zero}

WithOverride(r, o) ==
    [Date |-> r.Date, Deposits |-> r.Deposits, Withdrawals |-> r.Withdrawals,
     UnrealizedPerformance |-> r.UnrealizedPerformance,
     RealizedPerformance |-> r.RealizedPerformance,
     TradingCosts |-> r.TradingCosts, ServicingFeeOverride |-> o]

ServicingFeeOverrideApplies ==
    \A k \in 1..Len(inputs_df), o \in FeeOverrides :
        LET d == to_datetime(inputs_df[k].Date)
            df == [inputs_df EXCEPT ![k] = WithOverride(inputs_df[k], o)]
            ledger == recalc_from_inputs(df, init_date, init_aum, init_units)
        IN  /\ Pos(init_aum) /\ Pos(init_units)
            /\ d # NaT /\ d # init_date /\ OnlyRecordOfItsDate(inputs_df, k)
            => \A i \in 1..Len(ledger) :
                   ledger[i].Date = d /\ Pos(ledger[i].Units)
                   => /\ ledger[i].ServicingFee = o
                      /\ ledger[i].PriceWithMER =
                             Sub(ledger[i].ClosePPU, Div(o, ledger[i].Units))
                      /\ ledger[i].FinalAUM =
                             Mul(ledger[i].PriceWithMER, ledger[i].Units)

\* C14: a row whose base opening AUM + deposits - withdrawals is 0 has both
\* performance percentages 0, whatever its unrealized and realized
\* performance.
ZeroBaseGuard ==
    \A i \in 1..Len(full_history) :
        LET r == full_history[i]
        IN  IsZero(Sub(Add(r.InitialAUM, r.Deposits), r.Withdrawals))
            => IsZero(r.UnrealizedPct) /\ IsZero(r.RealizedPct)

\* A saved day whose base is 0 while it carries performance.
ZeroBaseDayWithPerformance ==
    \E i \in 1..Len(full_history) :
        LET r == full_history[i]
        IN  /\ IsDayRow(r)
            /\ IsZero(Sub(Add(r.InitialAUM, r.Deposits), r.Withdrawals))
            /\ IsZero(r.PostMovAum)
            /\ ~IsZero(r.UnrealizedPerformance) \/ ~IsZero(r.RealizedPerformance)

\* C15: in the order of the replay, once a day's units are clamped to 0
\* (lines 166-168) that row and every row computed after it have units,
\* closing price, price after the fee, servicing fee and Final AUM all 0,
\* whatever flows and performance the later days carry.
ZeroUnitsAbsorbing ==
    \A rows \in {Computed(full_history)} :
        \A i \in 2..Len(rows) :
            LeqZero(UnitsBeforeClamp(rows, i))
            => \A j \in i..Len(rows) :
                   /\ IsZero(rows[j].Units)
                   /\ IsZero(rows[j].ClosePPU)
                   /\ IsZero(rows[j].PriceWithMER)
                   /\ IsZero(rows[j].ServicingFee)
                   /\ IsZero(rows[j].FinalAUM)

\* A saved ledger with a clamped day followed by a day with a deposit.
DepositAfterClamp ==
    LET rows == Computed(full_history)
    IN  \E i \in 2..Len(rows) :
            /\ LeqZero(UnitsBeforeClamp(rows, i))
            /\ \E j \in (i + 1)..Len(rows) :
                   Pos(rows[j].Deposits) /\ IsZero(rows[j].UnitsToMint)

\* C16: the ledger of a rebuild has one row for the seed date and one for
\* each distinct valid date of the input records other than the seed date,
\* in strictly ascending date order (so no two rows share a date); records
\* with a missing or unparseable date give no row.
LedgerShape ==
    \A ledger \in {Rebuilt} :
        LET valid == {to_datetime(inputs_df[k].Date) : k \in 1..Len(inputs_df)} \ {NaT}
            dates == {init_date} \cup valid
        IN  /\ Len(ledger) = Cardinality(dates)
            /\ {ledger[i].Date : i \in 1..Len(ledger)} = dates
            /\ \A i \in 2..Len(ledger) : ledger[i - 1].Date < ledger[i].Date

\* A frame holding a record without a valid date next to a record of a day
\* other than the seed day.
UndatedRecordInFrame ==
    /\ \E k \in 1..Len(inputs_df) : to_datetime(inputs_df[k].Date) = NaT
    /\ \E j \in 1..Len(inputs_df) :
           to_datetime(inputs_df[j].Date) \notin {NaT, init_date}
    /\ Len(Rebuilt) = 2

============================================================================
